---- MODULE Spec2Model ----
(***************************************************************************)
(* Savings-goal tracker (src/app.py): the monthly ledger kept in plans.csv, *)
(* the cached loader, recalc, the goal header and the "add operation" form. *)
(*                                                                          *)
(* Dates are records [y, m, d].  A formatted date is the tuple of its       *)
(* printed number fields, in print order ("%d-%m-%Y" -> <<d, m, y>>).       *)
(* A text cell is <<>> when it is missing (NaN) and <<s>> when it holds the *)
(* string s.  The category labels of the form are Cyrillic in the source    *)
(* and the currency sign is U+20BD; they are transliterated here.           *)
(***************************************************************************)
EXTENDS Integers, Sequences, FiniteSets, TLC

VARIABLES
    file,    \* contents of plans.csv: [cols, rows]
    cache,   \* value memoised by @st.cache_data for load_data()
    plans,   \* module-level `plans` of the current script run
    header,  \* today, accumulated, remaining, planned_future, loan_needed
    last,    \* inputs and branch of the last submitted form (history)
    nops     \* number of form submissions so far

vars == <<file, cache, plans, header, last, nops>>

----------------------------------------------------------------------------
(* Bounds of the model *)

MaxMonths == 2
MaxDay == 2
MaxOps == 2

----------------------------------------------------------------------------
(* Program constants *)

GOAL_AMOUNT == 426000

GOAL_DEADLINE == [y |-> 2025, m |-> 11, d |-> 1]

COLS_NUMERIC == <<"income", "expenses", "installments", "autoloan", "savings", "debt_return">>

NumCols == {COLS_NUMERIC[i] : i \in 1..Len(COLS_NUMERIC)}

\* options of the "operation type" selectbox: <<label, column>>
OpTypes ==
    { <<"Dohod", "income">>,
      <<"Rashod", "expenses">>,
      <<"Rassrochka", "installments">>,
      <<"Avtokredit", "autoloan">>,
      <<"Nakoplenie", "savings">>,
      <<"Vozvrat dolga", "debt_return">> }

NEW_MONTH == <<"Novyj mesyac...">>

AMOUNT_MIN_negative == 0 - 10000

\* st.number_input(min_value=0, step=1000, value=10000)
AMOUNT_MIN == 0

AMOUNT_DEFAULT == 10000

Amounts == {AMOUNT_MIN, AMOUNT_DEFAULT}

Comments == {"", "x"}

----------------------------------------------------------------------------
(* Calendar *)

MonthSeq ==
    << [y |-> 2025, m |-> 1, d |-> 1],
       [y |-> 2025, m |-> 11, d |-> 1],
       [y |-> 2025, m |-> 12, d |-> 1],
       [y |-> 2026, m |-> 1, d |-> 1],
       [y |-> 2026, m |-> 2, d |-> 1] >>

Months == {MonthSeq[k] : k \in 1..MaxMonths}

Dates == {[y |-> mo.y, m |-> mo.m, d |-> dd] : mo \in Months, dd \in 1..MaxDay}

DateLeq(a, b) ==
    \/ a.y < b.y
    \/ a.y = b.y /\ a.m < b.m
    \/ a.y = b.y /\ a.m = b.m /\ a.d <= b.d

\* .to_period("M").to_timestamp(): the first day of the date's month
to_month_start(dt) == [y |-> dt.y, m |-> dt.m, d |-> 1]

\* strftime("%m.%Y")
strftime_mY(dt) == <<dt.m, dt.y>>

\* strftime("%d-%m-%Y")
strftime_dmY(dt) == <<dt.d, dt.m, dt.y>>

\* date parsing with dayfirst=True of "DD-MM-YYYY" / "DD-MM.YYYY"
parse_dayfirst(s) == [y |-> s[3], m |-> s[2], d |-> s[1]]

----------------------------------------------------------------------------
(* Tables: a table is a sequence of rows, a row a function from column     *)
(* names to cells.                                                          *)

RECURSIVE SortByMonth(_)
SortByMonth(df) ==
    IF df = <<>> THEN <<>>
    ELSE LET n == Len(df)
             s == SortByMonth(SubSeq(df, 1, n - 1))
             r == df[n]
             k == Cardinality({i \in 1..Len(s) : DateLeq(s[i]["month"], r["month"])})
         IN  SubSeq(s, 1, k) \o <<r>> \o SubSeq(s, k + 1, Len(s))

no_sort(df) == df

sort_values(df) == SortByMonth(df)

LoadRow(r, cols) ==
    [c \in cols \cup NumCols \cup {"comment"} |->
        IF c = "month" THEN to_month_start(parse_dayfirst(r["month"]))
        ELSE IF c \in cols THEN r[c]
        ELSE IF c = "comment" THEN <<"">>
        ELSE 0]

\* load_data(): read plans.csv, normalise months, default missing columns, sort
load_data(f) ==
    sort_values([i \in 1..Len(f.rows) |-> LoadRow(f.rows[i], f.cols)])

balance_stale(r) == IF "balance" \in DOMAIN r THEN r["balance"] ELSE 0

balance(r) ==
    r["income"] - r["expenses"] - r["installments"] - r["autoloan"]
        + r["debt_return"] - r["savings"]

RECURSIVE cumsum(_, _)
cumsum(df, i) == IF i = 0 THEN 0 ELSE cumsum(df, i - 1) + df[i]["savings"]

total_saved(df, i) == cumsum(df, i)

recalc(df) ==
    [i \in 1..Len(df) |->
        [c \in DOMAIN df[i] \cup {"balance", "total_saved"} |->
            IF c = "balance" THEN balance(df[i])
            ELSE IF c = "total_saved" THEN total_saved(df, i)
            ELSE df[i][c]]]

\* to_csv writes a missing value and an empty string alike as an empty cell
csv_text(cell) == IF cell = <<"">> THEN <<>> ELSE cell

save_plans(df) ==
    [cols |-> DOMAIN df[1],
     rows |-> [i \in 1..Len(df) |->
                [c \in DOMAIN df[i] |->
                    IF c = "month" THEN strftime_dmY(df[i]["month"])
                    ELSE IF c = "comment" THEN csv_text(df[i]["comment"])
                    ELSE df[i][c]]]]

----------------------------------------------------------------------------
(* Header: progress against the goal *)

RECURSIVE SumSavings(_, _, _)
\* sum of df["savings"] over the rows i..Len(df) whose index is in sel
SumSavings(df, sel, i) ==
    IF i > Len(df) THEN 0
    ELSE (IF i \in sel THEN df[i]["savings"] ELSE 0) + SumSavings(df, sel, i + 1)

accumulated(df, today) ==
    SumSavings(df, {i \in 1..Len(df) : DateLeq(df[i]["month"], today)}, 1)

planned_future(df, today) ==
    SumSavings(df, {i \in 1..Len(df) :
                       /\ ~DateLeq(df[i]["month"], today)
                       /\ DateLeq(df[i]["month"], GOAL_DEADLINE)}, 1)

Max(a, b) == IF a >= b THEN a ELSE b

loan_needed_unclamped(acc, fut) == GOAL_AMOUNT - (acc + fut)

loan_needed(acc, fut) == Max(0, GOAL_AMOUNT - (acc + fut))

Header(df, today) ==
    [today          |-> today,
     accumulated    |-> accumulated(df, today),
     remaining      |-> GOAL_AMOUNT - accumulated(df, today),
     planned_future |-> planned_future(df, today),
     loan_needed    |-> loan_needed(accumulated(df, today), planned_future(df, today))]

----------------------------------------------------------------------------
(* Sidebar form *)

month_options(df) == {strftime_mY(df[i]["month"]) : i \in 1..Len(df)}

target_month(month_choice, new_month) ==
    IF month_choice = NEW_MONTH
    THEN to_month_start(new_month)
    ELSE parse_dayfirst(<<1>> \o month_choice)

Matches(df, target) == {i \in 1..Len(df) : df[i]["month"] = target}

\* df.index[df["month"] == target_month][0]
FirstMatch(df, target) ==
    CHOOSE i \in Matches(df, target) : \A j \in Matches(df, target) : i <= j

Tag(op_type, amount) == "+" \o op_type[1] \o ": " \o ToString(amount) \o "R"

merged_comment_replace(old, op_type, amount, comment_add) ==
    <<Tag(op_type, amount) \o " (" \o comment_add \o ")">>

\* lines 108-111: comment of an existing row after the append
merged_comment(old, op_type, amount, comment_add) ==
    IF comment_add = "" THEN old
    ELSE LET base == IF old # <<>> THEN old[1] ELSE ""
             glue == IF base # "" THEN " | " ELSE ""
         IN  <<base \o glue \o Tag(op_type, amount) \o " (" \o comment_add \o ")">>

update_row_all_columns(df, idx, op_type, amount, comment_add) ==
    [i \in 1..Len(df) |->
        [c \in DOMAIN df[i] |->
            IF i = idx /\ c \in NumCols THEN df[i][c] + amount
            ELSE IF i = idx /\ c = "comment"
                 THEN merged_comment(df[i]["comment"], op_type, amount, comment_add)
            ELSE df[i][c]]]

\* lines 106-111: the existing-month branch
update_row(df, idx, op_type, amount, comment_add) ==
    [i \in 1..Len(df) |->
        [c \in DOMAIN df[i] |->
            IF i = idx /\ c = op_type[2] THEN df[i][c] + amount
            ELSE IF i = idx /\ c = "comment"
                 THEN merged_comment(df[i]["comment"], op_type, amount, comment_add)
            ELSE df[i][c]]]

new_row_copies_amount(target, op_type, amount, comment_add) ==
    [c \in {"month", "comment"} \cup NumCols |->
        IF c = "month" THEN target
        ELSE IF c = "comment"
             THEN <<IF comment_add # ""
                    THEN Tag(op_type, amount) \o " (" \o comment_add \o ")"
                    ELSE Tag(op_type, amount)>>
        ELSE amount]

\* lines 113-118: the row of a month that has no record yet
new_row(target, op_type, amount, comment_add) ==
    [c \in {"month", "comment"} \cup NumCols |->
        IF c = "month" THEN target
        ELSE IF c = "comment"
             THEN <<IF comment_add # ""
                    THEN Tag(op_type, amount) \o " (" \o comment_add \o ")"
                    ELSE Tag(op_type, amount)>>
        ELSE IF c = op_type[2] THEN amount
        ELSE 0]

\* pd.concat([df, DataFrame([row])]): the columns the new row lacks are missing
Concat(df, row) ==
    Append(df, [c \in DOMAIN df[1] \cup DOMAIN row |->
                   IF c \in DOMAIN row THEN row[c] ELSE <<>>])

always_insert(df, target) == FALSE

month_exists(df, target) == Matches(df, target) # {}

\* lines 103-122: the table the submit handler saves
Appended(df, target, op_type, amount, comment_add) ==
    recalc(sort_values(
        IF month_exists(df, target)
        THEN update_row(df, FirstMatch(df, target), op_type, amount, comment_add)
        ELSE Concat(df, new_row(target, op_type, amount, comment_add))))

----------------------------------------------------------------------------
(* Initial contents of plans.csv: hand-written files in the storage format *)
(* (one row per month; any day of the month; optional columns).            *)

FileRow(cols, month, inc, exp, sav, comment) ==
    [c \in cols |->
        IF c = "month" THEN month
        ELSE IF c = "income" THEN inc
        ELSE IF c = "expenses" THEN exp
        ELSE IF c = "savings" THEN sav
        ELSE IF c = "comment" THEN comment
        ELSE 0]

AllCols == {"month", "comment"} \cup NumCols

Files ==
    { [cols |-> AllCols \ {"comment"},
       rows |-> << FileRow(AllCols \ {"comment"}, <<1, 1, 2025>>, 100000, 30000, 50000, <<>>) >>],
      [cols |-> AllCols,
       rows |-> << FileRow(AllCols, <<2, 11, 2025>>, 400000, 0, 376000, <<"note">>),
                   FileRow(AllCols, <<1, 1, 2025>>, 100000, 30000, 50000, <<>>) >>],
      [cols |-> {"month", "income", "expenses", "savings"},
       rows |-> << FileRow({"month", "income", "expenses", "savings"},
                           <<2, 12, 2025>>, 500000, 0 - 5000, 436000, <<>>),
                   FileRow({"month", "income", "expenses", "savings"},
                           <<1, 11, 2025>>, 0, 0, 0, <<>>) >>] }

----------------------------------------------------------------------------
(* Actions *)

NoOp == [kind |-> "none"]

\* @st.cache_data: load_data() is evaluated once per process; every later
\* script run of the process gets the memoised table
cached_load_data(f, c) == c

Init ==
    /\ file \in Files
    /\ cache = load_data(file)
    /\ plans = recalc(cache)
    /\ \E today \in Months : header = Header(plans, today)
    /\ last = NoOp
    /\ nops = 0

\* a new server process: the memo is empty, the script runs from the file
Restart ==
    /\ cache' = load_data(file)
    /\ plans' = recalc(cache')
    /\ \E today \in Months : header' = Header(plans', today)
    /\ last' = NoOp
    /\ UNCHANGED <<file, nops>>

\* the form is submitted: lines 101-125, then the rerun of the script
Submit(month_choice, new_month, op_type, amount, comment_add) ==
    /\ nops < MaxOps
    /\ LET target == target_month(month_choice, new_month)
           df     == Appended(plans, target, op_type, amount, comment_add)
       IN  /\ file' = save_plans(df)
           /\ last' = [kind        |-> "append",
                       choice      |-> month_choice,
                       new_month   |-> new_month,
                       target      |-> target,
                       op_type     |-> op_type,
                       amount      |-> amount,
                       comment_add |-> comment_add,
                       before      |-> plans,
                       df          |-> df]
    /\ cache' = cached_load_data(file', cache)
    /\ plans' = recalc(cache')
    /\ \E today \in Months : header' = Header(plans', today)
    /\ nops' = nops + 1

\* a script run of the same process without a submission (submitted is False)
Rerun ==
    /\ cache' = cached_load_data(file, cache)
    /\ plans' = recalc(cache')
    /\ \E today \in Months : header' = Header(plans', today)
    /\ UNCHANGED <<file, last, nops>>

SubmitExisting ==
    \E month_choice \in month_options(plans), op_type \in OpTypes,
       amount \in Amounts, comment_add \in Comments :
        Submit(month_choice, MonthSeq[1], op_type, amount, comment_add)

SubmitNew ==
    \E new_month \in Dates, op_type \in OpTypes,
       amount \in Amounts, comment_add \in Comments :
        Submit(NEW_MONTH, new_month, op_type, amount, comment_add)

Next == SubmitExisting \/ SubmitNew \/ Rerun \/ Restart

Spec == Init /\ [][Next]_vars

----------------------------------------------------------------------------
(* Vocabulary of the properties *)

\* the rows of plans.csv with their dates read back
SavedTable ==
    [i \in 1..Len(file.rows) |->
        [c \in DOMAIN file.rows[i] |->
            IF c = "month" THEN parse_dayfirst(file.rows[i]["month"])
            ELSE file.rows[i][c]]]

IsAppend == last.kind = "append"

ExistedBefore == Matches(last.before, last.target) # {}

SameCalendarMonth(a, b) == a.y = b.y /\ a.m = b.m

OnePerMonth(df) ==
    \A i, j \in 1..Len(df) :
        SameCalendarMonth(df[i]["month"], df[j]["month"]) => i = j

\* the row of df for the month of row b, with the amount added where it belongs
SameFieldsPlus(b, r, col, amount) ==
    /\ r["month"] = b["month"]
    /\ \A c \in NumCols :
          r[c] = b[c] + (IF b["month"] = last.target /\ c = col THEN amount ELSE 0)

----------------------------------------------------------------------------
(* C1: an append to a month that already has a record adds the amount to   *)
(* the selected category field of that month's record and to nothing else: *)
(* the other five category fields of the record, the month, category       *)
(* fields, comment and balance of every other month's record and the       *)
(* number of records are as before, in the table the handler saves and in  *)
(* the file.                                                               *)
C1_ExistingMonthFrame ==
    (IsAppend /\ ExistedBefore) =>
        /\ Len(last.df) = Len(last.before)
        /\ Len(file.rows) = Len(last.before)
        /\ \A i \in 1..Len(last.before) :
              LET b == last.before[i] IN
              /\ \E j \in 1..Len(last.df) :
                    /\ SameFieldsPlus(b, last.df[j], last.op_type[2], last.amount)
                    /\ b["month"] # last.target =>
                          /\ last.df[j]["comment"] = b["comment"]
                          /\ last.df[j]["balance"] = b["balance"]
              /\ \E j \in 1..Len(SavedTable) :
                    SameFieldsPlus(b, SavedTable[j], last.op_type[2], last.amount)

C1_Witness ==
    /\ IsAppend /\ ExistedBefore
    /\ last.amount > 0
    /\ Len(last.before) > 1
    /\ \E j \in 1..Len(last.df) :
          /\ last.df[j]["month"] = last.target
          /\ last.df[j][last.op_type[2]] > last.amount

(* C2: an append to a month without a record adds exactly one record for   *)
(* that month, the selected category field equal to the amount and the     *)
(* five others zero; the month, category fields, comment and balance of    *)
(* every record that existed are as before.                                *)
C2_NewMonthInsert ==
    (IsAppend /\ ~ExistedBefore) =>
        /\ Len(last.df) = Len(last.before) + 1
        /\ Len(file.rows) = Len(last.before) + 1
        /\ Cardinality(Matches(last.df, last.target)) = 1
        /\ \A j \in Matches(last.df, last.target) :
              \A c \in NumCols :
                  /\ last.df[j][c] = (IF c = last.op_type[2] THEN last.amount ELSE 0)
                  /\ SavedTable[j][c] = last.df[j][c]
        /\ \A i \in 1..Len(last.before) :
              LET b == last.before[i] IN
              \E j \in 1..Len(last.df) :
                  /\ SameFieldsPlus(b, last.df[j], last.op_type[2], 0)
                  /\ SameFieldsPlus(b, SavedTable[j], last.op_type[2], 0)
                  /\ last.df[j]["comment"] = b["comment"]
                  /\ last.df[j]["balance"] = b["balance"]

C2_Witness ==
    /\ IsAppend /\ ~ExistedBefore
    /\ last.amount > 0
    /\ Len(file.rows) = Len(last.before) + 1
    /\ \E j \in 1..Len(SavedTable) :
          /\ SavedTable[j]["month"] = last.target
          /\ SavedTable[j][last.op_type[2]] = last.amount

(* C3: every append starts from the records as left by the previous        *)
(* append: the file written by a submission is the stored table with that  *)
(* submission applied (by induction, the initially loaded table with all   *)
(* the appends applied in order).                                          *)
C3_NoAppendLost ==
    [][ (last'.kind = "append" /\ nops' = nops + 1) =>
            file' = save_plans(Appended(recalc(load_data(file)), last'.target,
                                        last'.op_type, last'.amount, last'.comment_add))
      ]_vars

(* C4: the ledger holds one record per month: in the displayed table, in   *)
(* the file and in the table an append saves.                              *)
C4_OneRecordPerMonth ==
    /\ OnePerMonth(plans)
    /\ OnePerMonth(cache)
    /\ OnePerMonth(SavedTable)
    /\ IsAppend => OnePerMonth(last.df)

C4_Witness ==
    /\ IsAppend /\ ExistedBefore
    /\ last.choice = NEW_MONTH
    /\ last.new_month.d > 1
    /\ nops = MaxOps
    /\ Len(file.rows) > 1

CumulativeOK(df) ==
    /\ \A i \in 1..Len(df) :
          df[i]["total_saved"] =
              SumSavings(df, {j \in 1..Len(df) : DateLeq(df[j]["month"], df[i]["month"])}, 1)
    /\ Len(df) > 0 => df[Len(df)]["total_saved"] = SumSavings(df, 1..Len(df), 1)

(* C5: in every table recalc produced (displayed, saved), total_saved of a *)
(* record is the sum of savings over the records whose month is not later  *)
(* than its month; total_saved of the last record is the sum of all        *)
(* savings.                                                                *)
C5_TotalSavedIsPrefixSum ==
    /\ CumulativeOK(plans)
    /\ IsAppend => CumulativeOK(last.df)
    /\ nops > 0 => CumulativeOK(SavedTable)

C5_Witness ==
    /\ IsAppend /\ ~ExistedBefore
    /\ last.op_type[2] = "savings" /\ last.amount > 0
    /\ Len(SavedTable) > 2
    /\ SavedTable[1]["month"] = last.target
    /\ SavedTable[Len(SavedTable)]["total_saved"] > SavedTable[Len(SavedTable)]["savings"]

BalanceOK(df) ==
    \A i \in 1..Len(df) :
        df[i]["balance"] =
            df[i]["income"] - df[i]["expenses"] - df[i]["installments"]
                - df[i]["autoloan"] + df[i]["debt_return"] - df[i]["savings"]

IsExampleRecord(r) ==
    /\ r["income"] = 100000 /\ r["expenses"] = 30000 /\ r["savings"] = 50000
    /\ r["installments"] = 0 /\ r["autoloan"] = 0 /\ r["debt_return"] = 0

ExampleAppend ==
    /\ IsAppend
    /\ Len(last.before) = 1
    /\ IsExampleRecord(last.before[1])
    /\ last.target = last.before[1]["month"]
    /\ last.op_type[2] = "savings"
    /\ last.amount = 10000

(* C6: in every table displayed or saved, balance is income - expenses -   *)
(* installments - autoloan + debt_return - savings of the record's current *)
(* fields; appending 10000 savings to {income 100000, expenses 30000,      *)
(* savings 50000} gives savings 60000, balance 10000, total_saved 60000.   *)
C6_BalanceFromCurrentFields ==
    /\ BalanceOK(plans)
    /\ IsAppend => BalanceOK(last.df)
    /\ nops > 0 => BalanceOK(SavedTable)
    /\ ExampleAppend =>
          /\ Len(SavedTable) = 1
          /\ SavedTable[1]["savings"] = 60000
          /\ SavedTable[1]["balance"] = 10000
          /\ SavedTable[1]["total_saved"] = 60000

C6_Witness ==
    /\ ExampleAppend
    /\ SavedTable[1]["balance"] = 10000
    /\ last.before[1]["balance"] = 20000

(* C7: two appends in a row whose input dates differ only in the day of    *)
(* the month address the same record: the target of both is the first day  *)
(* of that month, and the second append updates the record the first one   *)
(* left instead of inserting one.                                          *)
C7_SameMonthSameRecord ==
    [][ ( /\ last.kind = "append" /\ last'.kind = "append" /\ nops' = nops + 1
          /\ last.choice = NEW_MONTH /\ last'.choice = NEW_MONTH
          /\ SameCalendarMonth(last.new_month, last'.new_month)
          /\ last.new_month.d # last'.new_month.d )
        => /\ last'.target.d = 1
           /\ last'.target = last.target
           /\ Len(last'.df) = Len(last.df)
           /\ \A i \in Matches(last.df, last.target) :
                 \E j \in Matches(last'.df, last'.target) :
                     \A c \in NumCols :
                         last'.df[j][c] =
                             last.df[i][c] + (IF c = last'.op_type[2] THEN last'.amount ELSE 0)
      ]_vars

(* C8: the shortfall shown in the header is never negative, and it is 0    *)
(* exactly when accumulated + planned_future reaches the goal amount.      *)
C8_ShortfallClamped ==
    /\ header.loan_needed >= 0
    /\ header.loan_needed = 0 <=>
          header.accumulated + header.planned_future >= GOAL_AMOUNT
    /\ header.accumulated =
          SumSavings(plans, {i \in 1..Len(plans) : DateLeq(plans[i]["month"], header.today)}, 1)
    /\ header.accumulated + header.planned_future =
          SumSavings(plans, {i \in 1..Len(plans) :
                                \/ DateLeq(plans[i]["month"], header.today)
                                \/ DateLeq(plans[i]["month"], GOAL_DEADLINE)}, 1)

C8_Witness ==
    /\ header.accumulated + header.planned_future > GOAL_AMOUNT
    /\ header.planned_future > 0
    /\ header.loan_needed = 0

AllNonNegative(df) == \A i \in 1..Len(df) : \A c \in NumCols : df[i][c] >= 0

(* C9: the amount of an append is never negative: no category field of any *)
(* record is lower after the append than before it, and non-negative       *)
(* category fields stay non-negative.                                      *)
C9_AmountNeverNegative ==
    IsAppend =>
        /\ last.amount >= 0
        /\ \A i \in 1..Len(last.before) :
              \E j \in 1..Len(last.df) :
                  /\ last.df[j]["month"] = last.before[i]["month"]
                  /\ \A c \in NumCols :
                        /\ last.df[j][c] >= last.before[i][c]
                        /\ SavedTable[j][c] >= last.before[i][c]
        /\ AllNonNegative(last.before) =>
              AllNonNegative(last.df) /\ AllNonNegative(SavedTable)

C9_Witness ==
    /\ IsAppend /\ ExistedBefore
    /\ last.amount = 0
    /\ ~AllNonNegative(last.before)
    /\ ~AllNonNegative(SavedTable)

OldComment == last.before[FirstMatch(last.before, last.target)]["comment"]

NewComment == last.df[FirstMatch(last.df, last.target)]["comment"]

(* C10: an append to an existing month with an empty comment leaves the    *)
(* record's comment as it was; with a comment it sets it to the old        *)
(* comment, then " | " if the old comment is non-empty, then the tag       *)
(* "+<label>: <amount>R (<comment>)"; the old comment is a prefix of the   *)
(* new one.                                                                *)
C10_CommentMerge ==
    (IsAppend /\ ExistedBefore) =>
        LET base == IF OldComment = <<>> THEN "" ELSE OldComment[1]
            tag  == "+" \o last.op_type[1] \o ": " \o ToString(last.amount)
                        \o "R (" \o last.comment_add \o ")"
        IN  IF last.comment_add = ""
            THEN NewComment = OldComment
            ELSE /\ NewComment = <<base \o (IF base = "" THEN "" ELSE " | ") \o tag>>
                 /\ SubSeq(NewComment[1], 1, Len(base)) = base
                 /\ Len(NewComment[1]) > Len(base)

C10_Witness ==
    /\ IsAppend /\ ExistedBefore
    /\ last.comment_add # ""
    /\ OldComment # <<>> /\ OldComment # <<"">>
    /\ NewComment = <<OldComment[1] \o " | +Nakoplenie: 10000R (x)">>

====
